---- MODULE Spec2Model ----
(***************************************************************************)
(* Model of class KalmanFilter of my_kalman_filter1.py: the constructor    *)
(* and the four operations evolve, estimate, predict and rewind, each in   *)
(* its matrix branch (one_d = False) and its scalar branch (one_d = True). *)
(*                                                                         *)
(* Numbers.  A float is modelled by the exact rational it denotes, a pair  *)
(* <<n, d>> in lowest terms with d > 0.  The three non-finite IEEE values  *)
(* are the pairs with d = 0: <<1,0>> is inf, <<-1,0>> is -inf and <<0,0>>  *)
(* is nan.  Rounding is not modelled: equalities of the model are the      *)
(* equalities the code satisfies "within floating-point tolerance".        *)
(*                                                                         *)
(* Vectors are sequences of numbers, matrices are sequences of rows.       *)
(***************************************************************************)
EXTENDS Integers, Sequences, FiniteSets, TLC

-----------------------------------------------------------------------------
(* Bounds of the model. *)

\* the longest observation sequence / simulation horizon a caller passes
MaxN == 2
\* the largest step count a caller passes to predict and rewind
MaxK == 3
\* the number of calls of one session (a first call and its follow-ups)
MaxCalls == 2

-----------------------------------------------------------------------------
(* Scalar arithmetic. *)

Abs(a) == IF a < 0 THEN -a ELSE a

Sgn(a) == IF a < 0 THEN -1 ELSE IF a > 0 THEN 1 ELSE 0

RECURSIVE GCD(_, _)
GCD(a, b) == IF b = 0 THEN a ELSE GCD(b, a % b)

\* the number n/d: lowest terms, positive denominator; d = 0 is non-finite
Norm(n, d) ==
  IF d = 0 THEN <<Sgn(n), 0>>
  ELSE LET g == GCD(Abs(n), Abs(d))
       IN  <<(Sgn(d) * n) \div g, Abs(d) \div g>>

Num(a) == Norm(a, 1)

IsFinite(a) == a[2] # 0

IsNaN(a) == a = <<0, 0>>

\* a + b (inf + inf = inf, inf + -inf = nan, nan + b = nan)
RAdd(a, b) ==
  IF IsFinite(a) /\ IsFinite(b)
  THEN LET g == GCD(a[2], b[2])
       IN  Norm(a[1] * (b[2] \div g) + b[1] * (a[2] \div g), (a[2] \div g) * b[2])
  ELSE IF IsNaN(a) \/ IsNaN(b) THEN <<0, 0>>
  ELSE IF ~IsFinite(a) /\ ~IsFinite(b) THEN (IF a = b THEN a ELSE <<0, 0>>)
  ELSE IF IsFinite(a) THEN b ELSE a

RNeg(a) == <<-a[1], a[2]>>

RSub(a, b) == RAdd(a, RNeg(b))

\* a * b (0 * inf = nan)
RMul(a, b) ==
  IF IsFinite(a) /\ IsFinite(b)
  THEN LET g == GCD(Abs(a[1]), b[2])
           h == GCD(Abs(b[1]), a[2])
       IN  Norm((a[1] \div g) * (b[1] \div h), (a[2] \div h) * (b[2] \div g))
  ELSE Norm(a[1] * b[1], a[2] * b[2])

\* 1 / a where the division does not raise (numpy: 1 / 0.0 = inf)
RRecip(a) == Norm(a[2], a[1])

-----------------------------------------------------------------------------
(* Vector and matrix arithmetic (numpy's +, -, @, .T, eye). *)

RECURSIVE RSum(_)
RSum(s) == IF s = <<>> THEN Num(0) ELSE RAdd(Head(s), RSum(Tail(s)))

\* a sequence built by a constructor, as the tuple of its elements (the same
\* value: TLC then computes each element once, not at every use)
Tuple(s) == s \o <<>>

VecAdd(a, b) == Tuple([j \in 1..Len(a) |-> RAdd(a[j], b[j])])

VecSub(a, b) == Tuple([j \in 1..Len(a) |-> RSub(a[j], b[j])])

Dot(a, b) == RSum(Tuple([j \in 1..Len(a) |-> RMul(a[j], b[j])]))

Rows(A) == Len(A)

Cols(A) == Len(A[1])

Col(A, c) == Tuple([r \in 1..Rows(A) |-> A[r][c]])

Transpose(A) == Tuple([c \in 1..Cols(A) |-> Col(A, c)])

MatVec(A, v) == Tuple([r \in 1..Rows(A) |-> Dot(A[r], v)])

MatMul(A, B) ==
  LET Bt == Transpose(B)
  IN  Tuple([r \in 1..Rows(A) |-> Tuple([c \in 1..Rows(Bt) |-> Dot(A[r], Bt[c])])])

MatAdd(A, B) == Tuple([r \in 1..Rows(A) |-> VecAdd(A[r], B[r])])

MatSub(A, B) == Tuple([r \in 1..Rows(A) |-> VecSub(A[r], B[r])])

Eye(n) == Tuple([r \in 1..n |-> Tuple([c \in 1..n |-> IF r = c THEN Num(1) ELSE Num(0)])])

\* the sequence s without its j-th element
Drop(s, j) == Tuple([q \in 1..(Len(s) - 1) |-> IF q < j THEN s[q] ELSE s[q + 1]])

\* the matrix A without row r and column c
Minor(A, r, c) == Tuple([q \in 1..(Rows(A) - 1) |-> Drop(Drop(A, r)[q], c)])

RECURSIVE Det(_)
Det(A) ==
  IF Rows(A) = 1 THEN A[1][1]
  ELSE RSum(Tuple([c \in 1..Rows(A) |->
              RMul(IF c % 2 = 1 THEN A[1][c] ELSE RNeg(A[1][c]), Det(Minor(A, 1, c)))]))

\* scipy.linalg.inv raises LinAlgError exactly when the matrix is singular
IsSingular(A) == Det(A) = Num(0)

\* scipy.linalg.inv(A) of a non-singular A: the adjugate over the determinant
Inv(A) ==
  LET n == Rows(A)
      r == RRecip(Det(A))
      Cof(a, b) == IF n = 1 THEN Num(1)
                   ELSE IF (a + b) % 2 = 0 THEN Det(Minor(A, a, b))
                   ELSE RNeg(Det(Minor(A, a, b)))
  IN  Tuple([a \in 1..n |-> Tuple([b \in 1..n |-> RMul(Cof(b, a), r)])])

-----------------------------------------------------------------------------
(* The object and the values a caller passes. *)

None == <<>>

\* a scalar as the length-1 vector and the 1x1 matrix of the matrix branch
Vec1(a) == <<a>>

Mat1(a) == <<<<a>>>>

ZeroVec(n) == Tuple([j \in 1..n |-> Num(0)])

ZeroMat(r, c) == Tuple([a \in 1..r |-> ZeroVec(c)])

\* KalmanFilter(F, Q, H, R, u, one_d)
KalmanFilter(F, Q, H, R, u, one_d) ==
  [one_d |-> one_d, F |-> F, Q |-> Q, H |-> H, R |-> R, u |-> u]

\* a projectile model of the shape problem2() builds (positions, velocities,
\* positions observed, gravity as the control), with a unit time step
Projectile(Q, R) ==
  KalmanFilter(
    << <<Num(1), Num(0), Num(1), Num(0)>>,
       <<Num(0), Num(1), Num(0), Num(1)>>,
       <<Num(0), Num(0), Num(1), Num(0)>>,
       <<Num(0), Num(0), Num(0), Num(1)>> >>,
    Q,
    << <<Num(1), Num(0), Num(0), Num(0)>>,
       <<Num(0), Num(1), Num(0), Num(0)>> >>,
    R,
    <<Num(0), Num(0), Num(0), Num(-1)>>,
    FALSE)

\* the state dimension n and the observation dimension m of a matrix-mode object
Dim(o) == Len(o.u)

ObsDim(o) == Rows(o.H)

\* the same parameters for the other branch: scalars as 1x1 matrices, or back
Twin(o) ==
  IF o.one_d
  THEN KalmanFilter(Mat1(o.F), Mat1(o.Q), Mat1(o.H), Mat1(o.R), Vec1(o.u), FALSE)
  ELSE KalmanFilter(o.F[1][1], o.Q[1][1], o.H[1][1], o.R[1][1], o.u[1], TRUE)

\* a state, a covariance or an observation carried to the other branch
TwinVec(o, v) == IF o.one_d THEN Vec1(v) ELSE v[1]

TwinMat(o, A) == IF o.one_d THEN Mat1(A) ELSE A[1][1]

TwinSeq(o, s) == Tuple([j \in 1..Len(s) |-> TwinVec(o, s[j])])

ScalarModel(f, q, h, r) == KalmanFilter(Num(f), Num(q), Num(h), Num(r), Num(1), TRUE)

ScalarModels ==
  { ScalarModel(2, 0, 1, 0), ScalarModel(2, 1, 2, 1), ScalarModel(0, 1, 1, 0),
    ScalarModel(2, 0, 2, 1) }

\* a 2-state, 1-observation model (position and velocity, position observed)
PosVel(q, r) ==
  KalmanFilter(<< <<Num(1), Num(1)>>, <<Num(0), Num(1)>> >>,
               << <<Num(q), Num(0)>>, <<Num(0), Num(q)>> >>,
               << <<Num(1), Num(0)>> >>,
               Mat1(Num(r)),
               <<Num(0), Num(1)>>,
               FALSE)

MatrixModels ==
  { PosVel(0, 0), PosVel(1, 1) }
  \cup { Projectile(ZeroMat(4, 4), ZeroMat(2, 2)), Projectile(Eye(4), Eye(2)) }

\* the values of the callers: states, covariances, observations
Ramp(n) == Tuple([j \in 1..n |-> Num(j)])

MinMat(n) ==
  Tuple([a \in 1..n |-> Tuple([b \in 1..n |-> IF a < b THEN Num(a) ELSE Num(b)])])

UpperOnes(n) ==
  Tuple([a \in 1..n |-> Tuple([b \in 1..n |-> IF a <= b THEN Num(1) ELSE Num(0)])])

States(o) == IF o.one_d THEN {Num(0), Num(1)} ELSE {ZeroVec(Dim(o)), Ramp(Dim(o))}

Covariances(o) ==
  IF o.one_d THEN {Num(-1), Num(0), Num(1)}
  ELSE {ZeroMat(Dim(o), Dim(o)), Eye(Dim(o)), MinMat(Dim(o)), UpperOnes(Dim(o))}

Observations(o) == IF o.one_d THEN {Num(0), Num(1)} ELSE {ZeroVec(ObsDim(o)), Ramp(ObsDim(o))}

SeqsUpTo(S, n) == UNION {[1..len -> S] : len \in 0..n}

\* the step counts passed to predict and rewind, the non-positive 0 and -1 included
Horizons == (-1)..MaxK

-----------------------------------------------------------------------------
(* The randomness source: values of the support of each distribution. *)

StdNormal == {Num(0), Num(1)}

\* np.random.normal(loc, scale): loc + scale * g
Normal(loc, scale) == {RAdd(loc, RMul(scale, g)) : g \in StdNormal}

\* np.random.multivariate_normal(mean, cov): mean + a vector of cov's column space
MultivariateNormal(mean, cov) ==
  {VecAdd(mean, MatVec(cov, Tuple([j \in 1..Len(mean) |-> g]))) : g \in StdNormal}

\* the means of lines 54 and 55, np.array([0,0,0,0]) and np.array([0,0])
MeanW == <<Num(0), Num(0), Num(0), Num(0)>>

MeanV == <<Num(0), Num(0)>>

\* multivariate_normal raises ValueError unless cov is square of the mean's length
BadCov(mean, cov) == Rows(cov) # Len(mean) \/ Cols(cov) # Len(mean)

-----------------------------------------------------------------------------
(* The statements of the loop bodies. *)

\* evolve, matrix branch: x1 = F@x0 + u + w and z1 = H@x0 + v
EvolveMatrix(o, vx0, w, v) ==
  [x1 |-> VecAdd(VecAdd(MatVec(o.F, vx0), o.u), w),
   z1 |-> VecAdd(MatVec(o.H, vx0), v)]

\* evolve, scalar branch: x1 = F*x0 + u + w and z1 = H*x0 + v
EvolveScalar(o, vx0, w, v) ==
  [x1 |-> RAdd(RAdd(RMul(o.F, vx0), o.u), w),
   z1 |-> RAdd(RMul(o.H, vx0), v)]

\* estimate, matrix branch, predict step
PredictStateMatrix(o, vx0) == VecAdd(MatVec(o.F, vx0), o.u)

PredictCovMatrix(o, vP0) == MatAdd(MatMul(MatMul(o.F, vP0), Transpose(o.F)), o.Q)

\* estimate, matrix branch, update step
InnovationMatrix(o, zi, new_x) == VecSub(zi, MatVec(o.H, new_x))

InnovationCovMatrix(o, new_P) == MatAdd(MatMul(MatMul(o.H, new_P), Transpose(o.H)), o.R)

\* the innovation covariance used without inverting it
GainMatrix_NoInverse(o, new_P, Sk) == MatMul(MatMul(new_P, Transpose(o.H)), Sk)

GainMatrix(o, new_P, Sk) == MatMul(MatMul(new_P, Transpose(o.H)), Inv(Sk))

UpdateStateMatrix(new_x, Kk, y_t) == VecAdd(new_x, MatVec(Kk, y_t))

UpdateCovMatrix(o, I, Kk, new_P) == MatMul(MatSub(I, MatMul(Kk, o.H)), new_P)

\* estimate, scalar branch, predict step
PredictStateScalar(o, vx0) == RAdd(RMul(o.F, vx0), o.u)

\* the square of F forgotten
PredictCovScalar_NoSquare(o, vP0) == RAdd(RMul(o.F, vP0), o.Q)

PredictCovScalar(o, vP0) == RAdd(RMul(RMul(o.F, o.F), vP0), o.Q)

\* estimate, scalar branch, update step
InnovationScalar(o, zi, new_x) == RSub(zi, RMul(o.H, new_x))

InnovationCovScalar(o, new_P) == RAdd(RMul(RMul(o.H, o.H), new_P), o.R)

GainScalar(o, new_P, Sk) == RMul(RMul(new_P, o.H), RRecip(Sk))

UpdateStateScalar(new_x, Kk, y_t) == RAdd(new_x, RMul(Kk, y_t))

UpdateCovScalar(o, Kk, new_P) == RMul(RSub(Num(1), RMul(Kk, o.H)), new_P)

\* 1/Sk and 1/self.F raise ZeroDivisionError on Python numbers; on numpy
\* float64 they only warn and give inf
DivisionRaises(numpy, a) == ~numpy /\ a = Num(0)

\* the control vector forgotten
ForwardMatrix_NoControl(o, last) == MatVec(o.F, last)

\* predict: F@new_x[-1] + u, F*new_x[-1] + u
ForwardMatrix(o, last) == VecAdd(MatVec(o.F, last), o.u)

ForwardScalar(o, last) == RAdd(RMul(o.F, last), o.u)

\* rewind: inv(F)@(new_x[-1] - u), (1/F)*(new_x[-1] - u)
BackwardMatrix(o, last) == MatVec(Inv(o.F), VecSub(last, o.u))

\* the control subtracted after the division instead of before it
BackwardScalar_Precedence(o, last) == RSub(RMul(RRecip(o.F), last), o.u)

BackwardScalar(o, last) == RMul(RRecip(o.F), RSub(last, o.u))

\* np.array(new_x).reshape((k, len(x))) of the Len(new_x) rows collected:
\* -1 stands for the row count that fits, any other mismatch raises ValueError
\* (callers pass no k below -1, see Horizons)
ReshapeRaises(rows, vk) == vk # -1 /\ vk # Len(rows)

Last(s) == s[Len(s)]

-----------------------------------------------------------------------------
(* State. *)

VARIABLES
  self,        \* the KalmanFilter object the current call is made on
  np_scalars,  \* whether the scalars of scalar mode are numpy float64 (else Python floats)
  pc,          \* "idle", the method in progress, "returned" or "raised"
  call,        \* the method and the arguments of the current call
  x0, P0, z, N, i, x, out, P, new_x,   \* the locals of the method in progress
  ret,         \* what the last call returned, or the exception it raised
  prev,        \* the caller's record of the call before this one
  ncalls,      \* the calls made so far
  draws,       \* the noise drawn at each step of this evolve
  Sks          \* the innovation covariance computed at each step of this estimate

locals == <<x0, P0, z, N, i, x, out, P, new_x>>

vars == <<self, np_scalars, pc, call, x0, P0, z, N, i, x, out, P, new_x,
          ret, prev, ncalls, draws, Sks>>

NoLocals ==
  /\ x0' = None /\ P0' = None /\ z' = None /\ N' = None /\ i' = None
  /\ x' = None /\ out' = None /\ P' = None /\ new_x' = None

Init ==
  /\ \/ self \in ScalarModels /\ np_scalars \in BOOLEAN
     \/ self \in MatrixModels /\ np_scalars = TRUE
  /\ pc = "idle"
  /\ call = None /\ ret = None /\ prev = None
  /\ x0 = None /\ P0 = None /\ z = None /\ N = None /\ i = None
  /\ x = None /\ out = None /\ P = None /\ new_x = None
  /\ ncalls = 0
  /\ draws = <<>> /\ Sks = <<>>

\* the call raises: its frame is dropped and the exception reaches the caller
Raise(e) ==
  /\ pc' = "raised"
  /\ ret' = [exc |-> e]
  /\ NoLocals
  /\ UNCHANGED <<self, np_scalars, call, prev, ncalls, draws, Sks>>

\* the call returns v
Return(v) ==
  /\ pc' = "returned"
  /\ ret' = v
  /\ NoLocals
  /\ UNCHANGED <<self, np_scalars, call, prev, ncalls, draws, Sks>>

\* the caller makes call c on object o; what the previous call returned is kept
Begin(o, c) ==
  /\ ncalls < MaxCalls
  /\ self' = o
  /\ call' = c
  /\ ncalls' = ncalls + 1
  /\ prev' = IF pc = "returned"
             THEN [self |-> self, call |-> call, ret |-> ret, draws |-> draws]
             ELSE None
  /\ ret' = None
  /\ draws' = <<>>
  /\ Sks' = <<>>
  /\ UNCHANGED np_scalars

-----------------------------------------------------------------------------
(* evolve(x0, N) *)

EnterEvolve(c) ==
  /\ pc' = "evolve"
  /\ x0' = c.x0 /\ N' = c.N /\ x' = <<c.x0>> /\ z' = <<>> /\ i' = 0
  /\ P0' = None /\ out' = None /\ P' = None /\ new_x' = None

CallEvolve ==
  /\ pc = "idle"
  /\ \E vx0 \in States(self), vN \in 0..MaxN :
       LET c == [op |-> "evolve", via |-> "caller", x0 |-> vx0, N |-> vN]
       IN  Begin(self, c) /\ EnterEvolve(c)

\* the draws of step i + 1; a call made to compare the two branches is given
\* the draws of the call it is compared with
DrawsW(dist) == IF call.via = "twin" THEN {TwinVec(prev.self, prev.draws[i + 1].w)} ELSE dist

DrawsV(dist) == IF call.via = "twin" THEN {TwinVec(prev.self, prev.draws[i + 1].v)} ELSE dist

EvolveStepMatrix ==
  /\ pc = "evolve" /\ ~self.one_d /\ i < N
  /\ IF BadCov(MeanW, self.Q) \/ BadCov(MeanV, self.R)
     THEN Raise("ValueError")
     ELSE \E w \in DrawsW(MultivariateNormal(MeanW, self.Q)),
             v \in DrawsV(MultivariateNormal(MeanV, self.R)) :
            LET s == EvolveMatrix(self, x0, w, v)
            IN  /\ x' = Append(x, s.x1)
                /\ z' = Append(z, s.z1)
                /\ x0' = s.x1
                /\ i' = i + 1
                /\ draws' = Append(draws, [w |-> w, v |-> v])
                /\ UNCHANGED <<self, np_scalars, pc, call, P0, N, out, P, new_x,
                               ret, prev, ncalls, Sks>>

EvolveStepScalar ==
  /\ pc = "evolve" /\ self.one_d /\ i < N
  /\ \E w \in DrawsW(Normal(Num(0), self.Q)), v \in DrawsV(Normal(Num(0), self.R)) :
       LET s == EvolveScalar(self, x0, w, v)
       IN  /\ x' = Append(x, s.x1)
           /\ z' = Append(z, s.z1)
           /\ i' = i + 1
           /\ draws' = Append(draws, [w |-> w, v |-> v])
           /\ UNCHANGED <<self, np_scalars, pc, call, x0, P0, N, out, P, new_x,
                          ret, prev, ncalls, Sks>>

EvolveReturn ==
  /\ pc = "evolve" /\ i = N
  /\ Return([x |-> x, z |-> z])

-----------------------------------------------------------------------------
(* estimate(x0, P0, z) *)

EnterEstimate(c) ==
  /\ pc' = "estimate"
  /\ x0' = c.x0 /\ P0' = c.P0 /\ z' = c.z /\ N' = Len(c.z) /\ i' = 0
  /\ out' = <<>> /\ P' = <<>>
  /\ x' = None /\ new_x' = None

CallEstimate ==
  /\ pc = "idle"
  /\ \E vx0 \in States(self), vP0 \in Covariances(self),
        vz \in SeqsUpTo(Observations(self), MaxN) :
       LET c == [op |-> "estimate", via |-> "caller", x0 |-> vx0, P0 |-> vP0, z |-> vz]
       IN  Begin(self, c) /\ EnterEstimate(c)

EstimateStepMatrix ==
  /\ pc = "estimate" /\ ~self.one_d /\ i < N
  /\ LET I     == Eye(Len(call.P0))
         nx    == PredictStateMatrix(self, x0)
         new_P == PredictCovMatrix(self, P0)
         y_t   == InnovationMatrix(self, z[i + 1], nx)
         Sk    == InnovationCovMatrix(self, new_P)
     IN  IF IsSingular(Sk)
         THEN /\ pc' = "raised" /\ ret' = [exc |-> "LinAlgError"] /\ NoLocals
              /\ Sks' = Append(Sks, Sk)
              /\ UNCHANGED <<self, np_scalars, call, prev, ncalls, draws>>
         ELSE LET Kk      == GainMatrix(self, new_P, Sk)
                  final_x == UpdateStateMatrix(nx, Kk, y_t)
                  final_P == UpdateCovMatrix(self, I, Kk, new_P)
              IN  /\ out' = Append(out, final_x)
                  /\ P' = Append(P, final_P)
                  /\ x0' = final_x
                  /\ P0' = final_P
                  /\ i' = i + 1
                  /\ Sks' = Append(Sks, Sk)
                  /\ UNCHANGED <<self, np_scalars, pc, call, z, N, x, new_x,
                                 ret, prev, ncalls, draws>>

EstimateStepScalar ==
  /\ pc = "estimate" /\ self.one_d /\ i < N
  /\ LET nx    == PredictStateScalar(self, x0)
         new_P == PredictCovScalar(self, P0)
         y_t   == InnovationScalar(self, z[i + 1], nx)
         Sk    == InnovationCovScalar(self, new_P)
     IN  IF DivisionRaises(np_scalars, Sk)
         THEN /\ pc' = "raised" /\ ret' = [exc |-> "ZeroDivisionError"] /\ NoLocals
              /\ Sks' = Append(Sks, Sk)
              /\ UNCHANGED <<self, np_scalars, call, prev, ncalls, draws>>
         ELSE LET Kk      == GainScalar(self, new_P, Sk)
                  final_x == UpdateStateScalar(nx, Kk, y_t)
                  final_P == UpdateCovScalar(self, Kk, new_P)
              IN  /\ out' = Append(out, final_x)
                  /\ P' = Append(P, final_P)
                  /\ x0' = final_x
                  /\ P0' = final_P
                  /\ i' = i + 1
                  /\ Sks' = Append(Sks, Sk)
                  /\ UNCHANGED <<self, np_scalars, pc, call, z, N, x, new_x,
                                 ret, prev, ncalls, draws>>

EstimateReturn ==
  /\ pc = "estimate" /\ i = N
  /\ Return([out |-> out, P |-> P])

-----------------------------------------------------------------------------
(* predict(x, k) and rewind(x, k) *)

EnterWalk(c) ==
  /\ pc' = c.op
  /\ new_x' = <<c.x>> /\ i' = 0
  /\ x0' = None /\ P0' = None /\ z' = None /\ N' = None
  /\ x' = None /\ out' = None /\ P' = None

CallPredict ==
  /\ pc = "idle"
  /\ \E vx \in States(self), vk \in Horizons :
       LET c == [op |-> "predict", via |-> "caller", x |-> vx, k |-> vk]
       IN  Begin(self, c) /\ EnterWalk(c)

CallRewind ==
  /\ pc = "idle"
  /\ \E vx \in States(self), vk \in Horizons :
       LET c == [op |-> "rewind", via |-> "caller", x |-> vx, k |-> vk]
       IN  Begin(self, c) /\ EnterWalk(c)

WalkUnchanged ==
  UNCHANGED <<self, np_scalars, pc, call, x0, P0, z, N, x, out, P,
              ret, prev, ncalls, draws, Sks>>

PredictStepMatrix ==
  /\ pc = "predict" /\ ~self.one_d /\ i < call.k - 1
  /\ new_x' = Append(new_x, ForwardMatrix(self, Last(new_x)))
  /\ i' = i + 1
  /\ WalkUnchanged

PredictStepScalar ==
  /\ pc = "predict" /\ self.one_d /\ i < call.k - 1
  /\ new_x' = Append(new_x, ForwardScalar(self, Last(new_x)))
  /\ i' = i + 1
  /\ WalkUnchanged

RewindStepMatrix ==
  /\ pc = "rewind" /\ ~self.one_d /\ i < call.k - 1
  /\ IF IsSingular(self.F)
     THEN Raise("LinAlgError")
     ELSE /\ new_x' = Append(new_x, BackwardMatrix(self, Last(new_x)))
          /\ i' = i + 1
          /\ WalkUnchanged

RewindStepScalar ==
  /\ pc = "rewind" /\ self.one_d /\ i < call.k - 1
  /\ IF DivisionRaises(np_scalars, self.F)
     THEN Raise("ZeroDivisionError")
     ELSE /\ new_x' = Append(new_x, BackwardScalar(self, Last(new_x)))
          /\ i' = i + 1
          /\ WalkUnchanged

\* both methods end alike: reshape in the matrix branch, the list in the scalar one
WalkReturnMatrix ==
  /\ pc \in {"predict", "rewind"} /\ ~self.one_d /\ i >= call.k - 1
  /\ IF ReshapeRaises(new_x, call.k)
     THEN Raise("ValueError")
     ELSE Return([new_x |-> new_x])

WalkReturnScalar ==
  /\ pc \in {"predict", "rewind"} /\ self.one_d /\ i >= call.k - 1
  /\ Return([new_x |-> new_x])

-----------------------------------------------------------------------------
(* Follow-up calls: the caller passes on what the previous call returned. *)

\* estimate run on the observations evolve returned, from the true initial state
CallEstimateSimulated ==
  /\ pc = "returned" /\ call.op = "evolve"
  /\ \E vP0 \in Covariances(self) :
       LET c == [op |-> "estimate", via |-> "simulated",
                 x0 |-> call.x0, P0 |-> vP0, z |-> ret.z]
       IN  Begin(self, c) /\ EnterEstimate(c)

\* rewind from the last state predict returned, over the same number of steps
CallRewindForecast ==
  /\ pc = "returned" /\ call.op = "predict" /\ call.k >= 1
  /\ LET c == [op |-> "rewind", via |-> "forecast", x |-> ret.new_x[call.k], k |-> call.k]
     IN  Begin(self, c) /\ EnterWalk(c)

\* predict from the last state rewind returned, over the same number of steps
CallPredictReconstruction ==
  /\ pc = "returned" /\ call.op = "rewind" /\ call.k >= 1
  /\ LET c == [op |-> "predict", via |-> "reconstruction",
               x |-> ret.new_x[call.k], k |-> call.k]
     IN  Begin(self, c) /\ EnterWalk(c)

\* the arguments of call c on object o, for the same call on Twin(o)
TwinCall(o, c) ==
  CASE c.op = "evolve" ->
         [op |-> "evolve", via |-> "twin", x0 |-> TwinVec(o, c.x0), N |-> c.N]
    [] c.op = "estimate" ->
         [op |-> "estimate", via |-> "twin", x0 |-> TwinVec(o, c.x0),
          P0 |-> TwinMat(o, c.P0), z |-> TwinSeq(o, c.z)]
    [] OTHER ->
         [op |-> c.op, via |-> "twin", x |-> TwinVec(o, c.x), k |-> c.k]

\* the same call, with the same inputs, on the object of the other branch
CallTwin ==
  /\ pc = "returned"
  /\ self.one_d \/ (Dim(self) = 1 /\ ObsDim(self) = 1)
  /\ LET c == TwinCall(self, call)
     IN  /\ Begin(Twin(self), c)
         /\ CASE c.op = "evolve" -> EnterEvolve(c)
              [] c.op = "estimate" -> EnterEstimate(c)
              [] OTHER -> EnterWalk(c)

Next ==
  \/ CallEvolve \/ EvolveStepMatrix \/ EvolveStepScalar \/ EvolveReturn
  \/ CallEstimate \/ EstimateStepMatrix \/ EstimateStepScalar \/ EstimateReturn
  \/ CallPredict \/ CallRewind
  \/ PredictStepMatrix \/ PredictStepScalar
  \/ RewindStepMatrix \/ RewindStepScalar
  \/ WalkReturnMatrix \/ WalkReturnScalar
  \/ CallEstimateSimulated \/ CallRewindForecast \/ CallPredictReconstruction
  \/ CallTwin

Spec == Init /\ [][Next]_vars
-----------------------------------------------------------------------------
(* Vocabulary of the properties: every value in matrix form, so that one     *)
(* statement covers the two branches.                                        *)

MatForm(o) == IF o.one_d THEN Twin(o) ELSE o

VecForm(o, v) == IF o.one_d THEN Vec1(v) ELSE v

CovForm(o, A) == IF o.one_d THEN Mat1(A) ELSE A

VecSeqForm(o, s) == Tuple([j \in 1..Len(s) |-> VecForm(o, s[j])])

CovSeqForm(o, s) == Tuple([j \in 1..Len(s) |-> CovForm(o, s[j])])

Returned(op) == pc = "returned" /\ call.op = op

Raised(op) == pc = "raised" /\ call.op = op

Reverse(s) == Tuple([j \in 1..Len(s) |-> s[Len(s) + 1 - j]])

\* the noise-free transition x -> F*x + u, and its j-fold application
Transition(m, v) == VecAdd(MatVec(m.F, v), m.u)

RECURSIVE TransitionTimes(_, _, _)
TransitionTimes(m, v, j) == IF j = 0 THEN v ELSE TransitionTimes(m, Transition(m, v), j - 1)

\* one predict step and one update step of the Kalman recursion on the pair (v, C)
KalmanStep(m, v, C, zi) ==
  LET xm == VecAdd(MatVec(m.F, v), m.u)
      Pm == MatAdd(MatMul(MatMul(m.F, C), Transpose(m.F)), m.Q)
      y  == VecSub(zi, MatVec(m.H, xm))
      S  == MatAdd(MatMul(MatMul(m.H, Pm), Transpose(m.H)), m.R)
      K  == MatMul(MatMul(Pm, Transpose(m.H)), Inv(S))
  IN  [x |-> VecAdd(xm, MatVec(K, y)),
       P |-> MatMul(MatSub(Eye(Rows(C)), MatMul(K, m.H)), Pm)]

\* every innovation covariance this estimate has computed is invertible
AllInvertible == \A j \in 1..Len(Sks) : ~IsSingular(CovForm(self, Sks[j]))

InvertibleF(o) == ~IsSingular(MatForm(o).F)

NonNegative(a) == IsFinite(a) /\ a[1] >= 0

RECURSIVE PrincipalMinorsNonNegative(_)
PrincipalMinorsNonNegative(A) ==
  /\ NonNegative(Det(A))
  /\ Rows(A) > 1 => \A j \in 1..Rows(A) : PrincipalMinorsNonNegative(Minor(A, j, j))

IsSymmetric(A) == A = Transpose(A)

\* symmetric positive semi-definite: symmetric with every principal minor >= 0
IsPSD(A) == IsSymmetric(A) /\ PrincipalMinorsNonNegative(A)

-----------------------------------------------------------------------------
(* C1 *)

\* C1: estimate(x0, P0, z) with every innovation covariance invertible returns
\* Len(z) estimates and Len(z) covariances, the j-th pair being one predict step
\* and one update step applied to the (j-1)-th pair, the 0-th pair being
\* (x0, P0), which is not part of the output; and such a call does not raise.
C1_EstimateRecursion ==
  /\ (Returned("estimate") /\ AllInvertible) =>
       LET m  == MatForm(self)
           n  == Len(call.z)
           xs == <<VecForm(self, call.x0)>> \o VecSeqForm(self, ret.out)
           Ps == <<CovForm(self, call.P0)>> \o CovSeqForm(self, ret.P)
           zs == VecSeqForm(self, call.z)
       IN  /\ Len(ret.out) = n
           /\ Len(ret.P) = n
           /\ \A j \in 1..n :
                LET e == KalmanStep(m, xs[j], Ps[j], zs[j])
                IN  xs[j + 1] = e.x /\ Ps[j + 1] = e.P
  /\ Raised("estimate") => ~AllInvertible

\* a matrix-branch estimate over MaxN observations has returned, the second
\* pair differing from the first
C1_Witness ==
  /\ Returned("estimate") /\ AllInvertible /\ ~self.one_d
  /\ Len(call.z) = MaxN
  /\ ret.out[MaxN] # ret.out[1]
  /\ ret.P[MaxN] # ret.P[1]

-----------------------------------------------------------------------------
(* C2 *)

\* C2: with P0, Q and R symmetric positive semi-definite and every innovation
\* covariance invertible, every covariance estimate has produced, at every step
\* and in what it returns, is symmetric positive semi-definite (in scalar mode:
\* is >= 0).
C2_CovariancePSD ==
  /\ (/\ pc = "estimate"
      /\ AllInvertible
      /\ IsPSD(CovForm(self, call.P0))
      /\ IsPSD(MatForm(self).Q)
      /\ IsPSD(MatForm(self).R))
     => \A j \in 1..Len(P) : IsPSD(CovForm(self, P[j]))
  /\ (/\ Returned("estimate")
      /\ AllInvertible
      /\ IsPSD(CovForm(self, call.P0))
      /\ IsPSD(MatForm(self).Q)
      /\ IsPSD(MatForm(self).R))
     => \A j \in 1..Len(ret.P) : IsPSD(CovForm(self, ret.P[j]))

\* a matrix-branch estimate from a PSD covariance with off-diagonal entries has
\* returned MaxN covariances, the last of them not zero
C2_Witness ==
  /\ Returned("estimate") /\ AllInvertible /\ ~self.one_d
  /\ call.P0 = MinMat(Dim(self))
  /\ IsPSD(self.Q) /\ IsPSD(self.R)
  /\ Len(ret.P) = MaxN
  /\ ret.P[MaxN] # ZeroMat(Dim(self), Dim(self))
  /\ ret.P[MaxN][1][2] # Num(0)

-----------------------------------------------------------------------------
(* C3 *)

\* C3 (as claimed): evolve(x0, N) returns N + 1 states and N observations, the
\* first state being x0 and each later state being F * (the state returned just
\* before it) + u + (the noise drawn at that step).
C3_EvolveChain ==
  Returned("evolve") =>
    LET m  == MatForm(self)
        xs == VecSeqForm(self, ret.x)
    IN  /\ Len(ret.x) = call.N + 1
        /\ Len(ret.z) = call.N
        /\ ret.x[1] = call.x0
        /\ \A t \in 1..call.N :
             xs[t + 1] = VecAdd(Transition(m, xs[t]), VecForm(self, draws[t].w))

-----------------------------------------------------------------------------
(* C4 *)

\* C4: predict(x, k) with k >= 1 returns k states, the first being x and each
\* later one being F * (the one before) + u, so that the result is a function
\* of the model, x and k; and such a call does not raise.
C4_PredictChain ==
  /\ (Returned("predict") /\ call.k >= 1) =>
       LET m  == MatForm(self)
           xs == VecSeqForm(self, ret.new_x)
       IN  /\ Len(ret.new_x) = call.k
           /\ ret.new_x[1] = call.x
           /\ \A j \in 2..call.k : xs[j] = Transition(m, xs[j - 1])
  /\ (Raised("predict") => call.k < 1)

\* a matrix-branch predict over MaxK steps has returned, its states differing
C4_Witness ==
  /\ Returned("predict") /\ ~self.one_d /\ call.k = MaxK
  /\ Len(ret.new_x) = MaxK
  /\ ret.new_x[MaxK] # ret.new_x[MaxK - 1]

-----------------------------------------------------------------------------
(* C5 *)

\* C5 (as claimed): with F invertible and k >= 1, rewind(x, k) returns the
\* states at times 0..k-1 in that order: the noise-free transition applied
\* k - j times to element j (counted from 0) gives x.
C5_RewindChronological ==
  (Returned("rewind") /\ call.k >= 1 /\ InvertibleF(self)) =>
    LET m  == MatForm(self)
        xs == VecSeqForm(self, ret.new_x)
    IN  /\ Len(xs) = call.k
        /\ \A j \in 0..(call.k - 1) :
             TransitionTimes(m, xs[j + 1], call.k - j) = VecForm(self, call.x)

-----------------------------------------------------------------------------
(* C6 *)

-----------------------------------------------------------------------------
(* C7 *)

\* C7 (as claimed, for simulate): evolve run on the object of the other branch
\* with the same parameters, the same x0 and N and the same noise draws returns
\* the same states and observations.
C7_TwinEvolve ==
  (call # None /\ call.op = "evolve" /\ call.via = "twin" /\ pc \in {"returned", "raised"}) =>
    /\ pc = "returned"
    /\ VecSeqForm(self, ret.x) = VecSeqForm(prev.self, prev.ret.x)
    /\ VecSeqForm(self, ret.z) = VecSeqForm(prev.self, prev.ret.z)

-----------------------------------------------------------------------------
(* C8 *)

\* C8 (as claimed): with Q and R zero, estimate run from the true initial state
\* on the observations evolve returned, every innovation covariance being
\* invertible, returns the simulated states: e_i = s_i for i in 1..N.
C8_NoiseFree ==
  (/\ Returned("estimate") /\ call.via = "simulated"
   /\ AllInvertible
   /\ MatForm(self).Q = ZeroMat(Rows(MatForm(self).Q), Rows(MatForm(self).Q))
   /\ MatForm(self).R = ZeroMat(Rows(MatForm(self).R), Rows(MatForm(self).R)))
  => \A j \in 1..Len(ret.out) : ret.out[j] = prev.ret.x[j + 1]

-----------------------------------------------------------------------------
(* C9 *)

\* C9 (as claimed): an estimate that has computed an innovation covariance that
\* is not invertible fails and returns nothing: every estimate that returns has
\* computed invertible innovation covariances only.
C9_SingularFails ==
  Returned("estimate") => AllInvertible

-----------------------------------------------------------------------------
(* C10 *)

\* C10 (as claimed): whenever predict or rewind returns a sequence, k >= 1 and
\* the sequence has k elements.
C10_HorizonChecked ==
  (Returned("predict") \/ Returned("rewind")) =>
    call.k >= 1 /\ Len(ret.new_x) = call.k
====
